---- MODULE Spec2Model ----
(***************************************************************************)
(* cargo-scaffold: the materialization engine of src/src/lib.rs            *)
(* (ScaffoldDescription::internal_scaffold and what it calls).             *)
(*                                                                         *)
(* A text is a sequence of tokens.  A token is a literal byte, the byte    *)
(* "FF" that is not valid UTF-8, a handlebars placeholder "{{v}}" or the   *)
(* unterminated expression "{{".  A path is a sequence of components, a    *)
(* component is a text.  Files hold texts.                                 *)
(***************************************************************************)
EXTENDS Integers, Sequences, FiniteSets, TLC

VARIABLES
    desc,       \* the ScaffoldDescription: descriptor file plus options
    tree,       \* the template tree under template_path: rel path -> entry
    fs,         \* the filesystem outside the template: abs path -> node
    cwd,        \* the process working directory
    run,        \* number of scaffold calls started so far
    pc,         \* position inside internal_scaffold
    params,     \* the parameter map of the current call
    dirPath,    \* dir_path, the canonicalized target directory
    cmds,       \* the rendered commands run_hooks is iterating
    cmdIdx,     \* index of the next command in cmds
    initialPath,\* run_hooks' initial_path
    walked,     \* template entries the WalkDir iterator has yielded
    pruned,     \* template entries filter_entry has rejected
    result,     \* result of the current call: "running", "ok", "err", "panic"
    prev,       \* options and result of the call before the current one
    log,        \* what the current call has done so far, in order
    fsBefore    \* the filesystem when the current call began

vars == <<desc, tree, fs, cwd, run, pc, params, dirPath, cmds, cmdIdx,
          initialPath, walked, pruned, result, prev, log, fsBefore>>

\* Number of scaffold calls made one after the other on the same filesystem.
MaxRuns == 2

-----------------------------------------------------------------------------
(* Texts and the template renderer                                         *)

\* The placeholders that occur in the templates, and the variable each names.
VarOf == ("{{name}}" :> "name") @@ ("{{nv}}" :> "nv") @@ ("{{target_dir}}" :> "target_dir")

\* Handlebars::render_template in non-strict mode: a placeholder is replaced
\* by the value of its variable, by nothing when the variable is unset; an
\* unterminated expression is a render error.
RECURSIVE render_template(_, _)
render_template(t, p) ==
    IF t = <<>> THEN [ok |-> TRUE, out |-> <<>>]
    ELSE LET h == Head(t)
             r == render_template(Tail(t), p)
         IN IF h = "{{" \/ ~r.ok THEN [ok |-> FALSE, out |-> <<>>]
            ELSE IF h \in DOMAIN VarOf
            THEN [ok |-> TRUE,
                  out |-> (IF VarOf[h] \in DOMAIN p THEN p[VarOf[h]] ELSE <<>>) \o r.out]
            ELSE [ok |-> TRUE, out |-> <<h>> \o r.out]

\* std::str::from_utf8 / OsStr::to_str succeed
IsUtf8(t) == \A i \in 1..Len(t) : t[i] # "FF"

\* The components of a text read as a path: split at "/", empty components
\* dropped (Path::components).
RECURSIVE Split(_, _)
Split(t, sep) ==
    IF t = <<>> THEN <<>>
    ELSE IF Head(t) = sep THEN Split(Tail(t), sep)
    ELSE LET n == CHOOSE k \in 1..Len(t) :
                     /\ \A i \in 1..k : t[i] # sep
                     /\ (k = Len(t) \/ t[k + 1] = sep)
         IN <<SubSeq(t, 1, n)>> \o Split(SubSeq(t, n + 1, Len(t)), sep)

Components(t) == Split(t, "/")

\* Path::to_str of an absolute path
RECURSIVE PathStr(_)
PathStr(p) == IF p = <<>> THEN <<>> ELSE <<"/">> \o Head(p) \o PathStr(Tail(p))

\* PathBuf::push: an absolute argument replaces the path
PathPush(out, t) ==
    IF t # <<>> /\ Head(t) = "/"
    THEN [abs |-> TRUE, path |-> Components(t)]
    ELSE [abs |-> out.abs, path |-> out.path \o Components(t)]

\* Component::Normal: any component but the parent and current directory
\* ones (the root is the flag abs of a path)
IsNormal(c) == c \notin {<<"..">>, <<".">>}

\* render_path over the components of a path; abs tells whether the path read
\* is absolute (it then begins with a root component, pushed as is).  A
\* normal component is decoded, rendered and pushed; any other is pushed as
\* it is.
RECURSIVE render_path_from(_, _, _)
render_path_from(out, path, p) ==
    IF path = <<>> THEN [ok |-> TRUE, abs |-> out.abs, path |-> out.path]
    ELSE LET c == Head(path)
             r == render_template(c, p)
         IN IF ~IsNormal(c)
            THEN render_path_from([abs |-> out.abs, path |-> Append(out.path, c)],
                                  Tail(path), p)
            ELSE IF ~IsUtf8(c) \/ ~r.ok THEN [ok |-> FALSE, abs |-> FALSE, path |-> <<>>]
            ELSE render_path_from(PathPush(out, r.out), Tail(path), p)

render_path(abs, path, p) == render_path_from([abs |-> abs, path |-> <<>>], path, p)

\* Path::join of an absolute base and a rendered path
Join(base, r) == IF r.abs THEN r.path ELSE base \o r.path

-----------------------------------------------------------------------------
(* The filesystem                                                          *)

DirNode == [kind |-> "dir"]
FileNode(content, perm) == [kind |-> "file", content |-> content, perm |-> perm]

IsPrefix(p, q) == Len(p) <= Len(q) /\ SubSeq(q, 1, Len(p)) = p
Parent(p) == SubSeq(p, 1, Len(p) - 1)

Exists(f, p) == p \in DOMAIN f
IsDir(f, p) == p \in DOMAIN f /\ f[p].kind = "dir"

Restrict(f, S) == [q \in S |-> f[q]]

\* fs::remove_dir_all
RemoveDirAllOk(f, p) == IsDir(f, p)
RemoveDirAll(f, p) == Restrict(f, {q \in DOMAIN f : ~IsPrefix(p, q)})

\* fs::create_dir_all
CreateDirAllOk(f, p) == \A k \in 0..Len(p) : Exists(f, SubSeq(p, 1, k)) => IsDir(f, SubSeq(p, 1, k))
CreateDirAll(f, p) ==
    LET new == {SubSeq(p, 1, k) : k \in 0..Len(p)} \ DOMAIN f
    IN [q \in DOMAIN f \cup new |-> IF q \in DOMAIN f THEN f[q] ELSE DirNode]

\* fs::create_dir
CreateDirOk(f, p) == p # <<>> /\ ~Exists(f, p) /\ IsDir(f, Parent(p))
CreateDir(f, p) == [q \in DOMAIN f \cup {p} |-> IF q = p THEN DirNode ELSE f[q]]

\* OpenOptions::new().write(true).create(true).open
OpenWriteOk(f, p) == p # <<>> /\ IsDir(f, Parent(p)) /\ ~IsDir(f, p)

\* File::write_all on a file opened without truncate: the bytes written
\* replace the beginning of the file, what lay beyond them stays
Overlay(old, new) ==
    IF Len(old) > Len(new) THEN new \o SubSeq(old, Len(new) + 1, Len(old)) ELSE new

-----------------------------------------------------------------------------
(* Glob sets (exclude, disable_templating)                                 *)

\* The template-relative path as the text the glob set matches
RECURSIVE RelStr(_)
RelStr(p) ==
    IF p = <<>> THEN <<>>
    ELSE IF Len(p) = 1 THEN Head(p)
    ELSE Head(p) \o <<"/">> \o RelStr(Tail(p))

\* str::trim_start_matches("./")
RECURSIVE TrimDotSlash(_)
TrimDotSlash(t) ==
    IF Len(t) >= 2 /\ t[1] = "." /\ t[2] = "/" THEN TrimDotSlash(SubSeq(t, 3, Len(t))) ELSE t

\* Glob matching with globset's defaults: "*" matches any bytes, "/" included
RECURSIVE GlobMatch(_, _)
GlobMatch(pat, s) ==
    IF pat = <<>> THEN s = <<>>
    ELSE IF Head(pat) = "*"
    THEN \E k \in 0..Len(s) : GlobMatch(Tail(pat), SubSeq(s, k + 1, Len(s)))
    ELSE s # <<>> /\ Head(s) = Head(pat) /\ GlobMatch(Tail(pat), Tail(s))

\* GlobSet::is_match for the set built from an Option<Vec<String>>
IsMatch(patterns, p) ==
    \E i \in 1..Len(patterns) : GlobMatch(TrimDotSlash(patterns[i]), RelStr(p))

-----------------------------------------------------------------------------
(* Hook commands                                                           *)

\* shell_words::split of a command line without quotes
ShellWords(cmd) == Split(cmd, " ")

\* What a file created by a hook command holds
HookContent == <<"q", "q", "q", "q">>

\* The programs a hook can spawn; any other name is not found
Programs == {"touch", "false"}

\* The child process: touch creates the file named by its argument in the
\* working directory unless it exists; false does nothing and exits with 1
ChildExit(argv, dir, f) ==
    IF argv[1] = <<"false">> THEN 1
    ELSE IF Len(argv) >= 2 /\ OpenWriteOk(f, dir \o Components(argv[2])) THEN 0 ELSE 1

ChildEffect(argv, dir, f) ==
    IF argv[1] = <<"touch">> /\ Len(argv) >= 2
    THEN LET p == dir \o Components(argv[2])
         IN IF OpenWriteOk(f, p) /\ ~Exists(f, p)
            THEN [q \in DOMAIN f \cup {p} |-> IF q = p THEN FileNode(HookContent, "rw") ELSE f[q]]
            ELSE f
    ELSE f

-----------------------------------------------------------------------------
(* Templates, descriptors and options the calls are made with              *)

Toml == << <<".scaffold.toml">> >>
TomlFile == FileNode(<<"c">>, "rw")

\* an excluded directory with a child, and a directory holding a templated file
TreeBasic ==
    (<<>> :> DirNode) @@ (Toml :> TomlFile)
    @@ (<< <<"x">> >> :> DirNode)
    @@ (<< <<"x">>, <<"k">> >> :> FileNode(<<"k">>, "rw"))
    @@ (<< <<"s">> >> :> DirNode)
    @@ (<< <<"s">>, <<"{{name}}">> >> :> FileNode(<<"h", "{{name}}">>, "rwx"))

\* two directories whose names render to the same name, and a .git directory
TreeDirs ==
    (<<>> :> DirNode) @@ (Toml :> TomlFile)
    @@ (<< <<"{{name}}">> >> :> DirNode)
    @@ (<< <<"{{name}}">>, <<"a">> >> :> FileNode(<<"a">>, "rw"))
    @@ (<< <<"d">> >> :> DirNode)
    @@ (<< <<"d">>, <<".git">> >> :> DirNode)

\* a templated file and a raw file whose names render to the same name
TreeFiles ==
    (<<>> :> DirNode) @@ (Toml :> TomlFile)
    @@ (<< <<"{{name}}">> >> :> FileNode(<<"h", "{{name}}", "l">>, "rwx"))
    @@ (<< <<"d">> >> :> FileNode(<<"{{nv}}", "FF">>, "rw"))

\* a raw file with a placeholder in its name, and a templated file
TreeRaw ==
    (<<>> :> DirNode) @@ (Toml :> TomlFile)
    @@ (<< <<"{{name}}", "b">> >> :> FileNode(<<"{{nv}}">>, "rw"))
    @@ (<< <<"t">> >> :> FileNode(<<"{{nv}}", "t">>, "rw"))

\* entries that fail: invalid UTF-8, a raw file under a templated directory,
\* a file whose content does not render
TreeErr ==
    (<<>> :> DirNode) @@ (Toml :> TomlFile)
    @@ (<< <<"u">> >> :> FileNode(<<"u", "FF">>, "rw"))
    @@ (<< <<"{{name}}">> >> :> DirNode)
    @@ (<< <<"{{name}}">>, <<"g">> >> :> FileNode(<<"g">>, "rw"))
    @@ (<< <<"{{name}}">>, <<"w">> >> :> FileNode(<<"{{">>, "rw"))

Trees == {TreeBasic, TreeDirs, TreeFiles, TreeRaw, TreeErr}

\* template.exclude and template.disable_templating, the same for every tree
Exclude == << <<".", "/", "x">> >>
DisableTemplating == << <<"d">>, <<"*", "b">>, <<"*", "g">> >>

None == [some |-> FALSE]
Some(v) == [some |-> TRUE, v |-> v]

Touch(t) == <<"touch", " ">> \o t

\* [hooks], template.notes
Extras == {
    [hooks |-> None, notes |-> None],
    [hooks |-> Some([pre |-> Some(<<Touch(<<"{{name}}">>), Touch(<<"z">>)>>),
                     post |-> Some(<<Touch(<<"p">>)>>)]),
     notes |-> Some(<<"n", "{{target_dir}}">>)],
    [hooks |-> Some([pre |-> Some(<<<<"false">>, Touch(<<"z">>)>>),
                     post |-> Some(<<<<"false">>, Touch(<<"p">>)>>)]),
     notes |-> None],
    [hooks |-> Some([pre |-> Some(<<>>), post |-> Some(<< <<>>, Touch(<<"p">>) >>)]),
     notes |-> None],
    [hooks |-> Some([pre |-> Some(<< <<"nosuch">> >>), post |-> None]),
     notes |-> None],
    [hooks |-> Some([pre |-> None, post |-> Some(<< Touch(<<"{{">>) >>)]),
     notes |-> None],
    [hooks |-> Some([pre |-> None, post |-> Some(<<Touch(<<"p">>)>>)]),
     notes |-> Some(<<"{{">>)]
}

\* Opts::target_dir
TargetDirs == {None, Some(<< <<"o">> >>), Some(<< <<"{{name}}">> >>)}

\* the parameters the calls are made with
Parameters == [name |-> <<"d">>]

\* the same with a value of the caller's for the key target_dir
ParametersTargetDir == [name |-> <<"d">>, target_dir |-> <<"u">>]

\* Where the process starts
RootFs == (<<>> :> DirNode)

\* create_dir's dir_path before it is canonicalized: target_dir as given, or
\* the project name joined to the current directory
TargetPath(d, dir, name) ==
    IF d.target_dir.some THEN [abs |-> FALSE, path |-> d.target_dir.v]
    ELSE PathPush([abs |-> TRUE, path |-> dir], name)

\* fs::canonicalize: a relative path is taken from the current directory
Canonicalize(dir, r) == Join(dir, r)

\* A target directory that exists already, with a file of someone else's
WithForeign(t) ==
    LET f == CreateDirAll(RootFs, t)
    IN [q \in DOMAIN f \cup {t \o << <<"f">> >>} |->
            IF q \in DOMAIN f THEN f[q] ELSE FileNode(<<"f", "f", "f", "f", "f">>, "rw")]

NoPrev == [force |-> FALSE, append |-> FALSE, result |-> "none", walked |-> {}]

Init ==
    /\ tree \in Trees
    /\ \E x \in Extras, t \in TargetDirs, p \in {Parameters, ParametersTargetDir} :
          desc = [exclude |-> Some(Exclude), disable_templating |-> Some(DisableTemplating),
                  notes |-> x.notes, hooks |-> x.hooks, target_dir |-> t,
                  force |-> FALSE, append |-> FALSE, default_parameters |-> p]
    /\ fs \in {RootFs, WithForeign(Canonicalize(<<>>, TargetPath(desc, <<>>, Parameters.name)))}
    /\ cwd = <<>>
    /\ run = 0
    /\ pc = "idle"
    /\ params = desc.default_parameters
    /\ dirPath = <<>>
    /\ cmds = <<>>
    /\ cmdIdx = 1
    /\ initialPath = <<>>
    /\ walked = {}
    /\ pruned = {}
    /\ result = "none"
    /\ prev = NoPrev
    /\ log = <<>>
    /\ fsBefore = fs

-----------------------------------------------------------------------------
(* ScaffoldDescription                                                     *)

Ev(ev, src, dst, code) == [ev |-> ev, src |-> src, dst |-> dst, code |-> code]

\* create_dir that reuses an existing directory whatever the options are
create_dir_lenient(d, name, dir, f) ==
    LET dir_path == Canonicalize(dir, TargetPath(d, dir, name))
    IN IF CreateDirAllOk(f, dir_path)
       THEN [ok |-> TRUE, fs |-> CreateDirAll(f, dir_path), path |-> dir_path]
       ELSE [ok |-> FALSE, fs |-> f, path |-> dir_path]

\* create_dir without the removal of an existing directory under force
create_dir_no_remove(d, name, dir, f) ==
    LET dir_path == Canonicalize(dir, TargetPath(d, dir, name))
    IN IF (Exists(f, dir_path) /\ ~d.force /\ ~d.append) \/ ~CreateDirAllOk(f, dir_path)
       THEN [ok |-> FALSE, fs |-> f, path |-> dir_path]
       ELSE [ok |-> TRUE, fs |-> CreateDirAll(f, dir_path), path |-> dir_path]

\* create_dir: the target directory under the conflict policy
create_dir(d, name, dir, f) ==
    LET dir_path == Canonicalize(dir, TargetPath(d, dir, name))
        failed(g) == [ok |-> FALSE, fs |-> g, path |-> dir_path]
        create(g) == IF CreateDirAllOk(g, dir_path)
                     THEN [ok |-> TRUE, fs |-> CreateDirAll(g, dir_path), path |-> dir_path]
                     ELSE failed(g)
    IN IF Exists(f, dir_path)
       THEN IF ~d.force /\ ~d.append THEN failed(f)
            ELSE IF d.force
            THEN IF RemoveDirAllOk(f, dir_path) THEN create(RemoveDirAll(f, dir_path))
                 ELSE failed(f)
            ELSE create(f)
       ELSE create(f)

\* Insert that keeps the value of a key that is present
InsertIfVacant(p, k, v) == [x \in DOMAIN p \cup {k} |-> IF x \in DOMAIN p THEN p[x] ELSE v]

\* BTreeMap::insert
Insert(p, k, v) == [x \in DOMAIN p \cup {k} |-> IF x = k THEN v ELSE p[x]]

\* A call returns (or panics): internal_scaffold is left
Return(res) ==
    /\ pc' = "idle"
    /\ result' = res

\* scaffold_with_parameters up to the end of the target directory's
\* resolution, on a description made with the options force and append
Scaffold(force, append) ==
    /\ pc = "idle"
    /\ result # "panic"
    /\ run < MaxRuns
    /\ run' = run + 1
    /\ desc' = [desc EXCEPT !.force = force, !.append = append]
    /\ prev' = [force |-> desc.force, append |-> desc.append, result |-> result,
                walked |-> walked]
    /\ fsBefore' = fs
    /\ walked' = {}
    /\ pruned' = {}
    /\ cmds' = <<>>
    /\ cmdIdx' = 1
    /\ LET r == create_dir(desc', desc.default_parameters.name, cwd, fs)
       IN /\ fs' = r.fs
          /\ dirPath' = r.path
          /\ IF r.ok
             THEN /\ params' = Insert(desc.default_parameters, "target_dir", PathStr(r.path))
                  /\ pc' = "pre"
                  /\ result' = "running"
                  /\ log' = <<Ev("create_dir", <<>>, r.path, 0)>>
             ELSE /\ params' = desc.default_parameters
                  /\ Return("err")
                  /\ log' = <<>>
    /\ UNCHANGED <<tree, cwd, initialPath>>

\* RenderCommands with the rendering left out
RenderCommandsVerbatim(commands, p) == [ok |-> TRUE, out |-> commands]

\* The commands of a hook list, rendered; ok is false when one does not render
RenderCommands(commands, p) ==
    [ok |-> \A i \in 1..Len(commands) : render_template(commands[i], p).ok,
     out |-> [i \in 1..Len(commands) |-> render_template(commands[i], p).out]]

\* The commands rendered (unwrap panics on a failure), then run_hooks up to
\* its loop: the current directory is remembered and set to the target
BeginHooks(commands, inHooks) ==
    LET r == RenderCommands(commands, params)
    IN IF ~r.ok
       THEN /\ Return("panic")
            /\ UNCHANGED <<cwd, cmds, cmdIdx, initialPath>>
       ELSE /\ initialPath' = cwd
            /\ cwd' = dirPath
            /\ cmds' = r.out
            /\ cmdIdx' = 1
            /\ pc' = inHooks
            /\ UNCHANGED result

\* lines 433-454
PreHooks ==
    /\ pc = "pre"
    /\ IF desc.hooks.some /\ desc.hooks.v.pre.some
       THEN BeginHooks(desc.hooks.v.pre.v, "prehooks")
       ELSE /\ pc' = "walk"
            /\ UNCHANGED <<cwd, cmds, cmdIdx, initialPath, result>>
    /\ UNCHANGED <<desc, tree, fs, run, params, dirPath, walked, pruned, prev, log, fsBefore>>

\* PostHooks triggered while the loop over the entries is still running
PostHooksEarly ==
    /\ pc \in {"walk", "post"}
    /\ IF desc.hooks.some /\ desc.hooks.v.post.some /\ desc.hooks.v.post.v # <<>>
       THEN BeginHooks(desc.hooks.v.post.v, "posthooks")
       ELSE /\ Return("ok")
            /\ UNCHANGED <<cwd, cmds, cmdIdx, initialPath>>
    /\ UNCHANGED <<desc, tree, fs, run, params, dirPath, walked, pruned, prev, log, fsBefore>>

\* lines 576-599
PostHooks ==
    /\ pc = "post"
    /\ IF desc.hooks.some /\ desc.hooks.v.post.some /\ desc.hooks.v.post.v # <<>>
       THEN BeginHooks(desc.hooks.v.post.v, "posthooks")
       ELSE /\ Return("ok")
            /\ UNCHANGED <<cwd, cmds, cmdIdx, initialPath>>
    /\ UNCHANGED <<desc, tree, fs, run, params, dirPath, walked, pruned, prev, log, fsBefore>>

\* setup_cmd and run_cmd: the command line is split, the program spawned
\* and waited for; the exit status that wait returns is dropped
run_cmd(cmd, dir, f) ==
    LET argv == ShellWords(cmd)
    IN IF argv = <<>> THEN [res |-> "err", fs |-> f, argv |-> argv, code |-> 0]
       ELSE IF \A prog \in Programs : argv[1] # <<prog>>
       THEN [res |-> "panic", fs |-> f, argv |-> argv, code |-> 0]
       ELSE [res |-> "ok", fs |-> ChildEffect(argv, dir, f), argv |-> argv,
             code |-> ChildExit(argv, dir, f)]

\* One turn of run_hooks' loop
RunCmd ==
    /\ pc \in {"prehooks", "posthooks"}
    /\ cmdIdx <= Len(cmds)
    /\ LET r == run_cmd(cmds[cmdIdx], cwd, fs)
       IN /\ fs' = r.fs
          /\ IF r.res = "ok"
             THEN /\ log' = Append(log, Ev(pc, r.argv, cwd, r.code))
                  /\ cmdIdx' = cmdIdx + 1
                  /\ UNCHANGED <<pc, result>>
             ELSE /\ Return(r.res)
                  /\ UNCHANGED <<log, cmdIdx>>
    /\ UNCHANGED <<desc, tree, cwd, run, params, dirPath, cmds, initialPath, walked,
                   pruned, prev, fsBefore>>

\* run_hooks after its loop: back to the initial directory
EndHooks ==
    /\ pc \in {"prehooks", "posthooks"}
    /\ cmdIdx > Len(cmds)
    /\ IF IsDir(fs, initialPath)
       THEN /\ cwd' = initialPath
            /\ IF pc = "prehooks"
               THEN pc' = "walk" /\ UNCHANGED result
               ELSE Return("ok")
       ELSE /\ Return("err")
            /\ UNCHANGED cwd
    /\ UNCHANGED <<desc, tree, fs, run, params, dirPath, cmds, cmdIdx, initialPath,
                   walked, pruned, prev, log, fsBefore>>

-----------------------------------------------------------------------------
(* The walk over the template tree                                         *)

Children(p) == {q \in DOMAIN tree : Len(q) = Len(p) + 1 /\ IsPrefix(p, q)}

\* NextEntries with filter instead of filter_entry: a rejected directory is
\* not yielded, but the walk still descends into it
NextEntriesNoPrune ==
    LET seen == walked \cup pruned
        open == {d \in seen : tree[d].kind = "dir" /\ Children(d) \ seen # {}}
    IN IF <<>> \notin seen THEN {<<>>}
       ELSE IF open = {} THEN {}
       ELSE Children(CHOOSE d \in open : \A e \in open : Len(e) <= Len(d)) \ seen

\* The entries WalkDir can hand to filter_entry next: the root first, then
\* the unseen children of the deepest directory still open, in any order
NextEntries ==
    LET seen == walked \cup pruned
        open == {d \in walked : tree[d].kind = "dir" /\ Children(d) \ seen # {}}
    IN IF <<>> \notin seen THEN {<<>>}
       ELSE IF open = {} THEN {}
       ELSE Children(CHOOSE d \in open : \A e \in open : Len(e) <= Len(d)) \ seen

Patterns(o) == IF o.some THEN o.v ELSE <<>>

\* The closure given to filter_entry, lines 459-479
filter_entry(d, p) ==
    /\ \A i \in 1..Len(p) : p[i] # <<".git">>
    /\ ~(Len(p) = 1 /\ p = Toml)
    /\ ~IsMatch(Patterns(d.exclude), p)

\* entry_dir with the test on append made before the removal under force
entry_dir_append_first(d, f, dir_path, c, p) ==
    LET r == render_path(FALSE, c, p)
        dst == Join(dir_path, r)
    IN IF ~r.ok THEN [res |-> "err", fs |-> f, dst |-> <<>>]
       ELSE IF Exists(f, dst) /\ d.append
       THEN [res |-> "skipped", fs |-> f, dst |-> dst]
       ELSE IF Exists(f, dst) /\ d.force /\ ~RemoveDirAllOk(f, dst)
       THEN [res |-> "err", fs |-> f, dst |-> dst]
       ELSE LET removed == IF Exists(f, dst) /\ d.force THEN RemoveDirAll(f, dst) ELSE f
            IN IF ~CreateDirOk(removed, dst)
               THEN [res |-> "err", fs |-> removed, dst |-> dst]
               ELSE [res |-> "created", fs |-> CreateDir(removed, dst), dst |-> dst]

\* A directory entry, lines 490-508
entry_dir(d, f, dir_path, c, p) ==
    LET r == render_path(FALSE, c, p)
        dst == Join(dir_path, r)
        removed == IF Exists(f, dst) /\ d.force THEN RemoveDirAll(f, dst) ELSE f
    IN IF ~r.ok THEN [res |-> "err", fs |-> f, dst |-> <<>>]
       ELSE IF Exists(f, dst) /\ d.force /\ ~RemoveDirAllOk(f, dst)
       THEN [res |-> "err", fs |-> f, dst |-> dst]
       ELSE IF Exists(removed, dst) /\ d.append
       THEN [res |-> "skipped", fs |-> removed, dst |-> dst]
       ELSE IF ~CreateDirOk(removed, dst)
       THEN [res |-> "err", fs |-> removed, dst |-> dst]
       ELSE [res |-> "created", fs |-> CreateDir(removed, dst), dst |-> dst]

\* The destination of a file entry, lines 519-531
file_dest(d, dir_path, c, p) ==
    IF IsMatch(Patterns(d.disable_templating), c)
    THEN [ok |-> TRUE, abs |-> TRUE, path |-> dir_path \o c]
    ELSE render_path(TRUE, dir_path \o c, p)

\* The bytes to write for a file entry, lines 519-531
file_content(d, c, content, p) ==
    IF IsMatch(Patterns(d.disable_templating), c)
    THEN [ok |-> TRUE, out |-> content]
    ELSE IF ~IsUtf8(content) THEN [ok |-> FALSE, out |-> <<>>]
    ELSE render_template(content, p)

\* The file opened with write and create, its permissions set, the bytes written
write_file(f, path, content, perm) ==
    LET old == IF Exists(f, path) THEN f[path].content ELSE <<>>
    IN [q \in DOMAIN f \cup {path} |->
            IF q = path THEN FileNode(Overlay(old, content), perm) ELSE f[q]]

\* entry_file without the skip of an existing file under append
entry_file_overwrite(d, f, dir_path, c, node, p) ==
    LET content == file_content(d, c, node.content, p)
        dest == file_dest(d, dir_path, c, p)
    IN IF ~content.ok \/ ~dest.ok
       THEN [res |-> "err", fs |-> f, dst |-> <<>>, out |-> <<>>]
       ELSE IF ~OpenWriteOk(f, dest.path)
       THEN [res |-> "err", fs |-> f, dst |-> dest.path, out |-> content.out]
       ELSE [res |-> "written", fs |-> write_file(f, dest.path, content.out, node.perm),
             dst |-> dest.path, out |-> content.out]

\* A file entry, lines 510-548
entry_file(d, f, dir_path, c, node, p) ==
    LET content == file_content(d, c, node.content, p)
        dest == file_dest(d, dir_path, c, p)
    IN IF ~content.ok \/ ~dest.ok
       THEN [res |-> "err", fs |-> f, dst |-> <<>>, out |-> <<>>]
       ELSE IF Exists(f, dest.path) /\ ~d.force /\ d.append
       THEN [res |-> "skipped", fs |-> f, dst |-> dest.path, out |-> content.out]
       ELSE IF ~OpenWriteOk(f, dest.path)
       THEN [res |-> "err", fs |-> f, dst |-> dest.path, out |-> content.out]
       ELSE [res |-> "written", fs |-> write_file(f, dest.path, content.out, node.perm),
             dst |-> dest.path, out |-> content.out]

\* filter_entry rejects the next entry: it is not yielded nor descended into
WalkSkip ==
    /\ pc = "walk"
    /\ \E c \in NextEntries :
          /\ ~filter_entry(desc, c)
          /\ pruned' = pruned \cup {c}
    /\ UNCHANGED <<desc, tree, fs, cwd, run, pc, params, dirPath, cmds, cmdIdx,
                   initialPath, walked, result, prev, log, fsBefore>>

\* The root of the template: entry_path is empty, lines 487-489
EntryRoot ==
    /\ pc = "walk"
    /\ <<>> \in NextEntries
    /\ filter_entry(desc, <<>>)
    /\ walked' = walked \cup {<<>>}
    /\ UNCHANGED <<desc, tree, fs, cwd, run, pc, params, dirPath, cmds, cmdIdx,
                   initialPath, pruned, result, prev, log, fsBefore>>

\* One turn of the loop over the entries, for a directory
EntryDir ==
    /\ pc = "walk"
    /\ \E c \in NextEntries \ {<<>>} :
          /\ filter_entry(desc, c)
          /\ tree[c].kind = "dir"
          /\ walked' = walked \cup {c}
          /\ LET r == entry_dir(desc, fs, dirPath, c, params)
             IN /\ fs' = r.fs
                /\ IF r.res = "err"
                   THEN Return("err") /\ UNCHANGED log
                   ELSE /\ log' = Append(log, Ev(IF r.res = "created" THEN "dir" ELSE "skipdir",
                                                c, r.dst, 0))
                        /\ UNCHANGED <<pc, result>>
    /\ UNCHANGED <<desc, tree, cwd, run, params, dirPath, cmds, cmdIdx, initialPath,
                   pruned, prev, fsBefore>>

\* One turn of the loop over the entries, for a file
EntryFile ==
    /\ pc = "walk"
    /\ \E c \in NextEntries \ {<<>>} :
          /\ filter_entry(desc, c)
          /\ tree[c].kind = "file"
          /\ walked' = walked \cup {c}
          /\ LET r == entry_file(desc, fs, dirPath, c, tree[c], params)
             IN /\ fs' = r.fs
                /\ IF r.res = "err"
                   THEN Return("err") /\ UNCHANGED log
                   ELSE /\ log' = Append(log, Ev(IF r.res = "written" THEN "file" ELSE "skipfile",
                                                c, r.dst, 0))
                        /\ UNCHANGED <<pc, result>>
    /\ UNCHANGED <<desc, tree, cwd, run, params, dirPath, cmds, cmdIdx, initialPath,
                   pruned, prev, fsBefore>>

\* One turn of the loop for a file whose write_all returns an error (the
\* device is full, the descriptor fails): the file is open, created if it was
\* not there, its permissions are set and only the first k bytes are in it,
\* lines 540-547
EntryFileWriteFails ==
    /\ pc = "walk"
    /\ \E c \in NextEntries \ {<<>>} :
          /\ filter_entry(desc, c)
          /\ tree[c].kind = "file"
          /\ LET r == entry_file(desc, fs, dirPath, c, tree[c], params)
             IN /\ r.res = "written"
                /\ \E k \in 0..(Len(r.out) - 1) :
                      fs' = write_file(fs, r.dst, SubSeq(r.out, 1, k), tree[c].perm)
          /\ walked' = walked \cup {c}
    /\ Return("err")
    /\ UNCHANGED <<desc, tree, cwd, run, params, dirPath, cmds, cmdIdx, initialPath,
                   pruned, prev, log, fsBefore>>

\* The iterator is exhausted
WalkEnd ==
    /\ pc = "walk"
    /\ NextEntries = {}
    /\ pc' = "notes"
    /\ UNCHANGED <<desc, tree, fs, cwd, run, params, dirPath, cmds, cmdIdx,
                   initialPath, walked, pruned, result, prev, log, fsBefore>>

\* template.notes rendered and printed, lines 565-574
Notes ==
    /\ pc = "notes"
    /\ IF desc.notes.some
       THEN LET r == render_template(desc.notes.v, params)
            IN IF r.ok
               THEN /\ log' = Append(log, Ev("notes", <<r.out>>, <<>>, 0))
                    /\ pc' = "post"
                    /\ UNCHANGED result
               ELSE Return("err") /\ UNCHANGED log
       ELSE /\ pc' = "post"
            /\ UNCHANGED <<result, log>>
    /\ UNCHANGED <<desc, tree, fs, cwd, run, params, dirPath, cmds, cmdIdx,
                   initialPath, walked, pruned, prev, fsBefore>>

Next ==
    \/ \E force, append \in BOOLEAN : Scaffold(force, append)
    \/ PreHooks
    \/ RunCmd
    \/ EndHooks
    \/ WalkSkip
    \/ EntryRoot
    \/ EntryDir
    \/ EntryFile
    \/ EntryFileWriteFails
    \/ WalkEnd
    \/ Notes
    \/ PostHooks

Spec == Init /\ [][Next]_vars

-----------------------------------------------------------------------------
(* Properties                                                              *)

IsHookEv(e) == e.ev \in {"prehooks", "posthooks"}
IsEntryEv(e) == e.ev \in {"dir", "file", "skipdir", "skipfile"}
PreEvents == SelectSeq(log, LAMBDA e : e.ev = "prehooks")
PreDeclared == desc.hooks.some /\ desc.hooks.v.pre.some /\ desc.hooks.v.pre.v # <<>>
PastPreHooks ==
    \/ pc \in {"walk", "notes", "post", "posthooks"}
    \/ pc = "idle" /\ result = "ok"
    \/ \E i \in 1..Len(log) : IsEntryEv(log[i])

\* C1: when hooks.pre is declared and non-empty, by the time the call is past
\* its pre-hooks or has touched an entry of the template, every pre-hook
\* command has been run exactly once, in declared order, with the words of
\* its rendering as arguments and the target directory as working directory
\* ("touch {{name}}" with name = "d" runs as touch d); and no pre-hook runs
\* after an entry of the template has been handled.
C1_PreHooksBeforeEntries ==
    (run >= 1 /\ PreDeclared) =>
        /\ PastPreHooks =>
              /\ Len(PreEvents) = Len(desc.hooks.v.pre.v)
              /\ \A i \in 1..Len(PreEvents) :
                    /\ PreEvents[i].src =
                          ShellWords(render_template(desc.hooks.v.pre.v[i], params).out)
                    /\ PreEvents[i].dst = dirPath
                    /\ desc.hooks.v.pre.v[i] = Touch(<<"{{name}}">>) =>
                          PreEvents[i].src = << <<"touch">>, <<"d">> >>
        /\ \A i, j \in 1..Len(log) :
              (i < j /\ log[j].ev = "prehooks") => log[i].ev \in {"create_dir", "prehooks"}
        /\ pc \in {"pre", "prehooks"} => walked = {} /\ pruned = {}

C1_Witness ==
    /\ PreDeclared
    /\ Len(PreEvents) = 2
    /\ PreEvents[1].src = << <<"touch">>, <<"d">> >>
    /\ \E i \in 1..Len(log) : log[i].ev = "file"

\* C2: a hook command that exits with a non-zero status is the last thing the
\* call does: the call has returned an error and nothing follows it in the log.
C2_NonZeroExitAborts ==
    \A i \in 1..Len(log) :
        (IsHookEv(log[i]) /\ log[i].code # 0) =>
            /\ i = Len(log)
            /\ pc = "idle"
            /\ result = "err"

ExcludedDirs ==
    {p \in DOMAIN tree : tree[p].kind = "dir" /\ IsMatch(Patterns(desc.exclude), p)}

\* C3: no entry at or below a template directory that matches an exclude
\* pattern is ever yielded by the walk or handled by the loop, whether or not
\* its own path matches a pattern.
C3_ExcludedSubtreePruned ==
    \A p \in ExcludedDirs : \A q \in DOMAIN tree :
        IsPrefix(p, q) =>
            /\ q \notin walked
            /\ \A i \in 1..Len(log) : IsEntryEv(log[i]) => log[i].src # q

C3_Witness ==
    /\ pc = "idle"
    /\ result = "ok"
    /\ << <<"x">> >> \in ExcludedDirs
    /\ << <<"x">> >> \in pruned
    /\ ~IsMatch(Patterns(desc.exclude), << <<"x">>, <<"k">> >>)
    /\ << <<"s">>, <<"{{name}}">> >> \in walked

Succeeded == pc = "idle" /\ result = "ok"
WalkedFiles == {c \in walked : tree[c].kind = "file"}
IsRaw(c) == IsMatch(Patterns(desc.disable_templating), c)

\* C4: after a successful call every file entry the walk yielded has a file
\* in the filesystem at the destination path computed for it.
C4_EveryFileHasTarget ==
    Succeeded =>
        \A c \in WalkedFiles :
            LET dest == file_dest(desc, dirPath, c, params)
            IN /\ dest.ok
               /\ Exists(fs, dest.path)
               /\ fs[dest.path].kind = "file"

AppendOnly(o) == o.append /\ ~o.force

\* C5: a call with append and without force that follows a successful call
\* with the same options and parameters never changes or removes an entry
\* of the filesystem, and it ends successfully with the filesystem exactly
\* as the first call left it.
C5_AppendTwiceIdempotent ==
    (run >= 2 /\ AppendOnly(desc) /\ AppendOnly(prev) /\ prev.result = "ok") =>
        /\ \A q \in DOMAIN fsBefore : q \in DOMAIN fs /\ fs[q] = fsBefore[q]
        /\ pc = "idle" => (result = "ok" /\ fs = fsBefore)

C5_Witness ==
    /\ run >= 2 /\ AppendOnly(desc) /\ AppendOnly(prev) /\ prev.result = "ok"
    /\ Succeeded
    /\ \E i \in 1..Len(log) : log[i].ev = "skipfile"
    /\ \E i \in 1..Len(log) : log[i].ev = "skipdir"

\* What the current call has created: the destinations of the entries it
\* has created or written, the files its hook commands have touched, and the
\* file of the entry it has failed on
CreatedPaths ==
    {log[i].dst : i \in {k \in 1..Len(log) : log[k].ev \in {"dir", "file"}}}
    \cup {log[i].dst \o Components(log[i].src[2]) :
             i \in {k \in 1..Len(log) : IsHookEv(log[k]) /\ log[k].src[1] = <<"touch">>}}
    \cup {file_dest(desc, dirPath, c, params).path :
             c \in {w \in WalkedFiles : /\ pc = "idle" /\ result = "err"
                                        /\ \A i \in 1..Len(log) : log[i].src # w}}

InTarget(q) == IsPrefix(dirPath, q) /\ q # dirPath

\* C6: under force, once the target directory has been resolved, it holds
\* nothing before the pre-hooks start, and afterwards everything under it
\* was created by an entry or a hook command of this call.
C6_ForceReplacesTarget ==
    (desc.force /\ log # <<>>) =>
        /\ pc = "pre" => \A q \in DOMAIN fs : ~InTarget(q)
        /\ \A q \in DOMAIN fs : InTarget(q) => q \in CreatedPaths

C6_Witness ==
    /\ desc.force
    /\ Succeeded
    /\ \E q \in DOMAIN fsBefore :
          /\ InTarget(q)
          /\ fsBefore[q].kind = "file"
          /\ fsBefore[q].content[1] = "f"
          /\ q \notin DOMAIN fs
    /\ \E q \in DOMAIN fs : InTarget(q)

\* C7: a call with neither force nor append whose target directory exists
\* returns an error with the filesystem as it was, no hook command run, no
\* entry of the template yielded and the working directory unchanged.
C7_ExistingTargetFails ==
    (run >= 1 /\ ~desc.force /\ ~desc.append /\ Exists(fsBefore, dirPath)) =>
        /\ pc = "idle"
        /\ result = "err"
        /\ fs = fsBefore
        /\ log = <<>>
        /\ walked = {} /\ pruned = {}

C7_Witness ==
    /\ run >= 1 /\ ~desc.force /\ ~desc.append
    /\ IsDir(fsBefore, dirPath)
    /\ \E q \in DOMAIN fsBefore : InTarget(q)
    /\ result = "err"

\* C8: right after a file matched by disable_templating has been written,
\* the target file holds exactly the bytes of the source file.
C8_RawBytesCopied ==
    (pc = "walk" /\ log # <<>>) =>
        LET e == log[Len(log)]
        IN (e.ev = "file" /\ IsRaw(e.src)) => fs[e.dst].content = tree[e.src].content

\* C9: a file matched by disable_templating is written at the target
\* directory joined with its template-relative path rendered component by
\* component.
C9_RawPathRendered ==
    \A i \in 1..Len(log) :
        (log[i].ev = "file" /\ IsRaw(log[i].src)) =>
            log[i].dst = Join(dirPath, render_path(FALSE, log[i].src, params))

Stage(e) ==
    CASE e.ev = "create_dir" -> 1
      [] e.ev = "prehooks" -> 2
      [] IsEntryEv(e) -> 3
      [] e.ev = "notes" -> 4
      [] e.ev = "posthooks" -> 5

Count(ev) == Len(SelectSeq(log, LAMBDA e : e.ev = ev))

\* Every entry of the template is yielded or lies under a rejected entry,
\* and every entry yielded has been handled
WalkComplete ==
    /\ \A c \in DOMAIN tree : c \in walked \/ \E p \in pruned : IsPrefix(p, c)
    /\ \A c \in walked \ {<<>>} : \E i \in 1..Len(log) : IsEntryEv(log[i]) /\ log[i].src = c

\* C10: what a call does is ordered by stage: the target directory, the
\* pre-hooks, the entries, the notes, the post-hooks; an entry is handled
\* after the directory that holds it; notes and post-hooks come only when
\* every entry has been handled; a successful call has been through every
\* declared stage.
C10_StagesInOrder ==
    /\ \A i, j \in 1..Len(log) : i < j => Stage(log[i]) <= Stage(log[j])
    /\ log # <<>> => (log[1].ev = "create_dir" /\ Count("create_dir") = 1)
    /\ (walked # {} \/ pruned # {}) => log # <<>>
    /\ \A j \in 1..Len(log) :
          (IsEntryEv(log[j]) /\ Len(log[j].src) > 1) =>
              \E i \in 1..(j - 1) :
                  log[i].ev \in {"dir", "skipdir"} /\ log[i].src = Parent(log[j].src)
    /\ (Count("notes") + Count("posthooks") > 0 \/ pc \in {"notes", "post", "posthooks"}
          \/ Succeeded) => WalkComplete
    /\ Succeeded =>
          /\ desc.notes.some => Count("notes") = 1
          /\ PreDeclared => Count("prehooks") = Len(desc.hooks.v.pre.v)
          /\ (desc.hooks.some /\ desc.hooks.v.post.some) =>
                Count("posthooks") = Len(desc.hooks.v.post.v)

C10_Witness ==
    /\ Succeeded
    /\ Count("prehooks") = 2
    /\ Count("dir") = 1
    /\ Count("file") = 1
    /\ Count("notes") = 1
    /\ Count("posthooks") = 1

\* A file entry that fails whatever the filesystem holds: a templated file
\* that is not UTF-8 or whose content or path does not render
StaticFail(c) ==
    /\ tree[c].kind = "file"
    /\ \/ ~file_content(desc, c, tree[c].content, params).ok
       \/ ~file_dest(desc, dirPath, c, params).ok

\* C11: a failing step is the last thing a call does.  A file entry that
\* cannot be decoded or rendered leaves the call returned with an error, with
\* nothing logged for it, no notes and no post-hook; notes that do not render
\* are followed by no post-hook; a hook command that exits with a non-zero
\* status is the last event of a call that has returned an error.
C11_ErrorsTerminal ==
    /\ \A c \in walked \ {<<>>} :
          StaticFail(c) =>
              /\ pc = "idle" /\ result = "err"
              /\ \A i \in 1..Len(log) : log[i].src # c
              /\ Count("notes") = 0 /\ Count("posthooks") = 0
    /\ (desc.notes.some /\ ~render_template(desc.notes.v, params).ok) =>
          Count("posthooks") = 0
    /\ \A i \in 1..Len(log) :
          (IsHookEv(log[i]) /\ log[i].code # 0) =>
              /\ i = Len(log)
              /\ pc = "idle"
              /\ result = "err"

\* The part of C11 about the errors the call does return
C11_ReturnedErrorsTerminal ==
    /\ \A c \in walked \ {<<>>} :
          StaticFail(c) =>
              /\ pc = "idle" /\ result = "err"
              /\ \A i \in 1..Len(log) : log[i].src # c
              /\ Count("notes") = 0 /\ Count("posthooks") = 0
    /\ (desc.notes.some /\ ~render_template(desc.notes.v, params).ok) =>
          Count("posthooks") = 0

\* The previous call failed while it went through the entries of the template
FailedMidway == prev.result = "err" /\ prev.walked # {}

\* C12: a call with append and without force, made after a call that failed
\* while it materialized the template, leaves every file it found as it was,
\* and when it succeeds every file entry the walk yielded has at its
\* destination a file that holds the whole content computed for the entry.
C12_AppendResumes ==
    (run >= 2 /\ AppendOnly(desc) /\ FailedMidway) =>
        /\ \A q \in DOMAIN fsBefore :
              fsBefore[q].kind = "file" => (q \in DOMAIN fs /\ fs[q] = fsBefore[q])
        /\ Succeeded =>
              \A c \in WalkedFiles :
                  LET dest == file_dest(desc, dirPath, c, params)
                      content == file_content(desc, c, tree[c].content, params)
                  IN /\ dest.ok /\ content.ok
                     /\ Exists(fs, dest.path)
                     /\ fs[dest.path].kind = "file"
                     /\ fs[dest.path].content = content.out

\* C15: from the moment the target directory is resolved, hence before the
\* hook commands, the paths, the contents and the notes are rendered, the
\* parameters hold under "target_dir" the text of the canonical, absolute
\* target path, whatever the caller gave for that key; the notes of the call
\* are rendered with it.
C15_TargetDirBeforeRendering ==
    log # <<>> =>
        /\ "target_dir" \in DOMAIN params
        /\ params.target_dir = PathStr(dirPath)
        /\ Head(params.target_dir) = "/"
        /\ dirPath = log[1].dst
        /\ \A k \in DOMAIN desc.default_parameters :
              k # "target_dir" => params[k] = desc.default_parameters[k]
        /\ \A i \in 1..Len(log) :
              log[i].ev = "notes" =>
                  log[i].src = << render_template(desc.notes.v,
                       [name |-> desc.default_parameters.name,
                        target_dir |-> PathStr(dirPath)]).out >>

\* The caller gave a target_dir of their own and the notes have been
\* rendered with the path of the target directory in them
C15_Witness ==
    /\ desc.default_parameters = ParametersTargetDir
    /\ \E i \in 1..Len(log) :
          /\ log[i].ev = "notes"
          /\ log[i].src = << <<"n">> \o PathStr(dirPath) >>
          /\ PathStr(dirPath) # ParametersTargetDir.target_dir

\* C16: a directory entry that has just been handled without error has a
\* directory at its rendered destination; under force the directory is empty
\* (what was there is removed), the destination is left as it was only when
\* append is set without force and it existed, and with neither flag an
\* existing destination is never reused.
C16_DirEntryDestination ==
    (pc = "walk" /\ Len(log) > 1 /\ log[Len(log)].ev \in {"dir", "skipdir"}) =>
        LET e == log[Len(log)]
        IN /\ e.dst = Join(dirPath, render_path(FALSE, e.src, params))
           /\ IsDir(fs, e.dst)
           /\ e.ev = "skipdir" => AppendOnly(desc)
           /\ e.ev = "dir" => \A q \in DOMAIN fs : ~(IsPrefix(e.dst, q) /\ q # e.dst)

\* C17: a file entry that has just been written has at its destination a
\* file that holds the content computed for the entry, and nothing else,
\* with the permissions of the source entry.
C17_WrittenFileExact ==
    (pc = "walk" /\ Len(log) > 1 /\ log[Len(log)].ev = "file") =>
        LET e == log[Len(log)]
            content == file_content(desc, e.src, tree[e.src].content, params)
        IN /\ content.ok
           /\ Exists(fs, e.dst)
           /\ fs[e.dst].kind = "file"
           /\ fs[e.dst].perm = tree[e.src].perm
           /\ fs[e.dst].content = content.out

\* ---------------------------------------------------------------------
\* render_path on its own: the calls render_path(path, handlebars, params)
\* over the paths of at most MaxPathLen components

MaxPathLen == 3

\* The components the paths are made of: plain, with a placeholder, with a
\* placeholder of an unset variable, of a variable whose value is an
\* absolute path, parent directory, not Unicode, not a template
PathComponents ==
    { <<"a">>, <<"{{name}}">>, <<"x", "{{name}}">>, <<"{{nv}}">>, <<"{{target_dir}}">>,
      <<"..">>, <<"FF">>, <<"{{">> }

PathInputs == UNION {[1..n -> PathComponents] : n \in 1..MaxPathLen}

PathParameters == [name |-> <<"d">>, target_dir |-> <<"/", "o">>]

\* dirPath holds the path render_path is called on; initialPath is empty for
\* a relative path and holds the root component for an absolute one
InitPath ==
    /\ dirPath \in PathInputs
    /\ initialPath \in {<<>>, << <<"/">> >>}
    /\ params = PathParameters
    /\ tree = TreeBasic
    /\ desc = [exclude |-> None, disable_templating |-> None, notes |-> None,
               hooks |-> None, target_dir |-> None, force |-> FALSE, append |-> FALSE,
               default_parameters |-> Parameters]
    /\ fs = RootFs
    /\ cwd = <<>>
    /\ run = 0
    /\ pc = "idle"
    /\ cmds = <<>>
    /\ cmdIdx = 1
    /\ walked = {}
    /\ pruned = {}
    /\ result = "none"
    /\ prev = NoPrev
    /\ log = <<>>
    /\ fsBefore = RootFs

\* One call of render_path; the event holds the path read and the path built
RenderPath ==
    /\ run = 0
    /\ run' = 1
    /\ LET r == render_path(initialPath # <<>>, dirPath, params)
       IN /\ result' = IF r.ok THEN "ok" ELSE "err"
          /\ log' = <<Ev("render_path", dirPath, r.path, IF r.abs THEN 1 ELSE 0)>>
    /\ UNCHANGED <<desc, tree, fs, cwd, pc, params, dirPath, cmds, cmdIdx, initialPath,
                   walked, pruned, prev, fsBefore>>

NextPath == RenderPath

SpecPath == InitPath /\ [][NextPath]_vars

\* C18: a call of render_path that succeeds returns a path with as many
\* components as the path read; its i-th component is the rendering of the
\* i-th component read when that one is normal and the component itself
\* otherwise, a component without placeholder is unchanged, and the path
\* is absolute exactly when the path read is.
C18_ComponentWise ==
    (run = 1 /\ result = "ok") =>
        LET in == log[1].src
            out == log[1].dst
        IN /\ Len(out) = Len(in)
           /\ (log[1].code = 1) = (initialPath # <<>>)
           /\ \A i \in 1..Len(in) :
                 /\ i <= Len(out)
                 /\ IsNormal(in[i]) => out[i] = render_template(in[i], params).out
                 /\ ~IsNormal(in[i]) => out[i] = in[i]
                 /\ (\A k \in 1..Len(in[i]) : in[i][k] \notin DOMAIN VarOf) => out[i] = in[i]

\* The destination directory of the template directory that holds the entry
\* c: the target directory for an entry of the root of the template, else the
\* destination the directory loop computes for the parent
ParentDest(c) ==
    IF Len(c) = 1 THEN dirPath
    ELSE Join(dirPath, render_path(FALSE, SubSeq(c, 1, Len(c) - 1), params))

\* C19: for every file entry the walk has yielded, templated or not, the
\* destination computed for the file is the rendering of its name inside the
\* destination of the directory that holds it, and lies under the target
\* directory as create_dir resolved it.
C19_FileInsideParentDest ==
    \A c \in WalkedFiles :
        LET dest == file_dest(desc, dirPath, c, params)
            name == render_path(FALSE, <<c[Len(c)]>>, params)
        IN (dest.ok /\ name.ok) =>
              /\ IsPrefix(dirPath, dest.path)
              /\ dest.path = Join(ParentDest(c), name)

\* run_hooks has been called with commands in the current call and is not
\* running: it has returned, or a child could not be spawned (a panic)
HooksReturned ==
    /\ cmds # <<>>
    /\ pc \notin {"prehooks", "posthooks"}
    /\ result # "panic"

\* C20: once run_hooks has returned, with success or with the error of a
\* command, the working directory of the process is the one that was
\* current when run_hooks was called.
C20_HooksRestoreCwd == HooksReturned => cwd = initialPath

\* ---------------------------------------------------------------------
\* The parameters of an interactive call: ScaffoldDescription::new on the
\* options of the command line, then scaffold with fetch_parameters_value

MaxOpts == 2
MaxDeclared == 3

\* str::split('='): the text cut at every "="
SplitEvery(t) == Split(t, "=")

\* str::splitn(2, '='): the text before the first "=" and the text after it,
\* or the text alone when it holds no "="
Splitn2(t) ==
    IF \A i \in 1..Len(t) : t[i] # "=" THEN <<t>>
    ELSE LET i == CHOOSE k \in 1..Len(t) : t[k] = "=" /\ \A j \in 1..(k - 1) : t[j] # "="
         IN <<SubSeq(t, 1, i - 1), SubSeq(t, i + 1, Len(t))>>

\* A key of the map: the keys of the model are texts of one token
KeyOf(t) == IF t = <<>> THEN "" ELSE t[1]

\* Value::String
StringValue(t) == [type |-> "String", v |-> t]

\* The loop of ScaffoldDescription::new over opts.parameters, lines 242-248
RECURSIVE ParseParameters(_, _)
ParseParameters(ps, acc) ==
    IF ps = <<>> THEN [ok |-> TRUE, map |-> acc]
    ELSE LET split == Splitn2(Head(ps))
         IN IF Len(split) # 2 THEN [ok |-> FALSE, map |-> acc]
            ELSE ParseParameters(Tail(ps),
                     [x \in DOMAIN acc \cup {KeyOf(split[1])} |->
                          IF x = KeyOf(split[1]) THEN StringValue(split[2]) ELSE acc[x]])

\* The map with no key
EmptyMap == [x \in {} |-> StringValue(<<>>)]

\* --param arguments
ParamTexts ==
    { <<"a", "=", "v">>, <<"a", "=", "v", "=", "w">>, <<"name", "=", "x">>,
      <<"target_dir", "=", "u">>, <<"a">> }

OptsParameters == UNION {[1..n -> ParamTexts] : n \in 0..MaxOpts}

\* The names the descriptor may declare, in the order of the keys of a
\* BTreeMap<String, _>, and the type each is declared with
KeyOrder == <<"a", "b", "name">>
Rank(k) == CHOOSE i \in 1..Len(KeyOrder) : KeyOrder[i] = k
ParamType == [a |-> "Integer", b |-> "Boolean", name |-> "String"]

\* The [parameters] table of the descriptor, as the order of its keys in
\* the file
Declared ==
    {q \in UNION {[1..n -> {KeyOrder[i] : i \in 1..Len(KeyOrder)}] : n \in 0..MaxDeclared} :
        \A i, j \in 1..Len(q) : i # j => q[i] # q[j]}

ProjectNames == {None, Some(<<"p">>)}

\* What the user types at a prompt
Answers == {<<"y">>}

InitParams ==
    /\ \E ps \in OptsParameters, d \in Declared, n \in ProjectNames :
          desc = [opts_parameters |-> ps, project_name |-> n, parameters |-> d,
                  default_parameters |-> EmptyMap,
                  target_dir |-> None, force |-> FALSE, append |-> FALSE]
    /\ params = EmptyMap
    /\ pc = "new"
    /\ result = "none"
    /\ log = <<>>
    /\ walked = {}
    /\ tree = TreeBasic
    /\ fs = RootFs
    /\ cwd = <<>>
    /\ run = 0
    /\ dirPath = <<>>
    /\ cmds = <<>>
    /\ cmdIdx = 1
    /\ initialPath = <<>>
    /\ pruned = {}
    /\ prev = NoPrev
    /\ fsBefore = RootFs

\* ScaffoldDescription::new, lines 240-251 and 285
New ==
    /\ pc = "new"
    /\ LET r == ParseParameters(desc.opts_parameters, EmptyMap)
           m == IF desc.project_name.some
                THEN Insert(r.map, "name", StringValue(desc.project_name.v))
                ELSE r.map
       IN IF r.ok
          THEN /\ desc' = [desc EXCEPT !.default_parameters = m]
               /\ params' = m
               /\ pc' = "fetch"
               /\ result' = "running"
               /\ log' = <<Ev("new", "", <<>>, 0)>>
          ELSE /\ Return("err")
               /\ UNCHANGED <<desc, params, log>>
    /\ UNCHANGED <<tree, fs, cwd, run, dirPath, cmds, cmdIdx, initialPath, walked,
                   pruned, prev, fsBefore>>

\* The key the iterator of self.parameters yields next: the least one left
NextKey ==
    CHOOSE k \in {desc.parameters[i] : i \in 1..Len(desc.parameters)} \ walked :
        \A j \in {desc.parameters[i] : i \in 1..Len(desc.parameters)} \ walked :
            Rank(k) <= Rank(j)

\* One turn of the loop of fetch_parameters_value, lines 348-352: a prompt
\* when the entry is vacant
FetchParameter ==
    /\ pc = "fetch"
    /\ {desc.parameters[i] : i \in 1..Len(desc.parameters)} \ walked # {}
    /\ LET k == NextKey
       IN /\ walked' = walked \cup {k}
          /\ IF k \in DOMAIN params
             THEN UNCHANGED <<params, log>>
             ELSE \E a \in Answers :
                     /\ params' = Insert(params, k, [type |-> ParamType[k], v |-> a])
                     /\ log' = Append(log, Ev("prompt", k, <<>>, 0))
    /\ UNCHANGED <<desc, tree, fs, cwd, run, pc, dirPath, cmds, cmdIdx, initialPath,
                   pruned, result, prev, fsBefore>>

\* The prompt for the name of the project, lines 354-365, and the return
FetchName ==
    /\ pc = "fetch"
    /\ {desc.parameters[i] : i \in 1..Len(desc.parameters)} \ walked = {}
    /\ IF "name" \in DOMAIN params
       THEN UNCHANGED <<params, log>>
       ELSE \E a \in Answers :
               /\ params' = Insert(params, "name", StringValue(a))
               /\ log' = Append(log, Ev("prompt", "name", <<>>, 0))
    /\ pc' = "scaffold"
    /\ UNCHANGED <<desc, tree, fs, cwd, run, dirPath, cmds, cmdIdx, initialPath, walked,
                   pruned, result, prev, fsBefore>>

\* to_value_interactive returns an error (the terminal is closed): the
\* prompt that was due is not answered and the call ends
PromptFails ==
    /\ pc = "fetch"
    /\ \/ /\ {desc.parameters[i] : i \in 1..Len(desc.parameters)} \ walked # {}
          /\ NextKey \notin DOMAIN params
       \/ /\ {desc.parameters[i] : i \in 1..Len(desc.parameters)} \ walked = {}
          /\ "name" \notin DOMAIN params
    /\ Return("err")
    /\ UNCHANGED <<desc, tree, fs, cwd, run, params, dirPath, cmds, cmdIdx, initialPath,
                   walked, pruned, prev, log, fsBefore>>

\* scaffold, lines 371-375, and internal_scaffold up to the parameters the
\* renderer is given, lines 415-425
ScaffoldFetched ==
    /\ pc = "scaffold"
    /\ run' = run + 1
    /\ LET parameters == [x \in DOMAIN desc.default_parameters \cup DOMAIN params |->
                              IF x \in DOMAIN params THEN params[x]
                              ELSE desc.default_parameters[x]]
       IN IF parameters.name.type # "String"
          THEN /\ Return("panic")
               /\ UNCHANGED <<fs, dirPath, params>>
          ELSE LET r == create_dir(desc, parameters.name.v, cwd, fs)
               IN /\ fs' = r.fs
                  /\ dirPath' = r.path
                  /\ IF r.ok
                     THEN /\ params' = Insert(parameters, "target_dir",
                                              StringValue(PathStr(r.path)))
                          /\ Return("ok")
                     ELSE /\ params' = parameters
                          /\ Return("err")
    /\ UNCHANGED <<desc, tree, cwd, cmds, cmdIdx, initialPath, walked, pruned, prev,
                   log, fsBefore>>

NextParams ==
    \/ New
    \/ FetchParameter
    \/ FetchName
    \/ PromptFails
    \/ ScaffoldFetched

SpecParams == InitParams /\ [][NextParams]_vars

\* The keys prompted for so far, in the order of the prompts
Prompts ==
    LET idx == {i \in 1..Len(log) : log[i].ev = "prompt"}
        nth(n) == CHOOSE i \in idx : Cardinality({j \in idx : j < i}) = n - 1
    IN [n \in 1..Cardinality(idx) |-> log[nth(n)].src]

\* The declared keys that are not seeded, in the order of the declaration
RECURSIVE Unseeded(_)
Unseeded(q) ==
    IF q = <<>> THEN <<>>
    ELSE IF Head(q) \in DOMAIN desc.default_parameters THEN Unseeded(Tail(q))
    ELSE <<Head(q)>> \o Unseeded(Tail(q))

\* fetch_parameters_value has returned Ok
Fetched == pc = "scaffold" \/ (pc = "idle" /\ run = 1)

\* C13: when fetch_parameters_value returns, it has prompted once for each
\* declared parameter that is not seeded, in the order of the declaration,
\* and then for "name" when "name" is neither seeded nor declared.
C13_PromptsInDeclaredOrder ==
    Fetched =>
        Prompts = Unseeded(desc.parameters)
                  \o (IF /\ "name" \notin DOMAIN desc.default_parameters
                         /\ \A i \in 1..Len(desc.parameters) : desc.parameters[i] # "name"
                      THEN <<"name">> ELSE <<>>)

\* The prompts without their order: once for each declared parameter that
\* is not seeded, and for "name" last when it is neither seeded nor declared
C13_PromptsOnceEach ==
    Fetched =>
        LET due == {desc.parameters[i] : i \in 1..Len(desc.parameters)}
                       \ DOMAIN desc.default_parameters
            name == IF "name" \in DOMAIN desc.default_parameters \cup due
                    THEN {} ELSE {"name"}
        IN /\ {Prompts[n] : n \in 1..Len(Prompts)} = due \cup name
           /\ Len(Prompts) = Cardinality(due \cup name)
           /\ name # {} => Prompts[Len(Prompts)] = "name"
           /\ \A m, n \in 1..Len(Prompts) :
                 (m < n /\ Prompts[n] # "name" /\ Prompts[m] # "name")
                     => Rank(Prompts[m]) < Rank(Prompts[n])

\* What the command line gives: an override holds "=", its key is the
\* text before the first "=" and its value everything after it
HasEq(t) == \E i \in 1..Len(t) : t[i] = "="
FirstEq(t) == CHOOSE i \in 1..Len(t) : t[i] = "=" /\ \A j \in 1..(i - 1) : t[j] # "="
GivenKey(t) == KeyOf(SubSeq(t, 1, FirstEq(t) - 1))
GivenValue(t) == SubSeq(t, FirstEq(t) + 1, Len(t))

AllWithEq == \A i \in 1..Len(desc.opts_parameters) : HasEq(desc.opts_parameters[i])

\* The keys seeded by the command line
SeededKeys ==
    {GivenKey(desc.opts_parameters[i]) : i \in 1..Len(desc.opts_parameters)}
    \cup (IF desc.project_name.some THEN {"name"} ELSE {})

\* The value the command line gives for a seeded key: the project name for
\* "name" when that option is given, else the value of the last override
Given(k) ==
    IF k = "name" /\ desc.project_name.some THEN desc.project_name.v
    ELSE LET last == CHOOSE i \in 1..Len(desc.opts_parameters) :
                        /\ GivenKey(desc.opts_parameters[i]) = k
                        /\ \A j \in (i + 1)..Len(desc.opts_parameters) :
                              GivenKey(desc.opts_parameters[j]) # k
         IN GivenValue(desc.opts_parameters[last])

\* ScaffoldDescription::new has returned an error
NewFailed == pc = "idle" /\ log = <<>>

\* C14 as stated: new fails exactly when an override holds no "="; a seeded
\* key is never prompted for; and in the parameters the renderer is given
\* every seeded key holds the String given for it.
C14_SeededReachTemplates ==
    /\ pc # "new" => (NewFailed <=> ~AllWithEq)
    /\ (pc # "new" /\ ~NewFailed) =>
          /\ \A n \in 1..Len(Prompts) : Prompts[n] \notin SeededKeys
          /\ (pc = "idle" /\ result = "ok") =>
                \A k \in SeededKeys :
                    k \in DOMAIN params /\ params[k] = StringValue(Given(k))

\* C14, amended: the same for every seeded key but "target_dir", which holds
\* the path of the target directory whatever was given for it.
C14_SeededReachTemplatesButTargetDir ==
    /\ pc # "new" => (NewFailed <=> ~AllWithEq)
    /\ (pc # "new" /\ ~NewFailed) =>
          /\ \A n \in 1..Len(Prompts) : Prompts[n] \notin SeededKeys
          /\ (pc = "idle" /\ result = "ok") =>
                /\ \A k \in SeededKeys \ {"target_dir"} :
                      k \in DOMAIN params /\ params[k] = StringValue(Given(k))
                /\ params["target_dir"] = StringValue(PathStr(dirPath))

\* A call that ended well with "a" declared and seeded with a value that
\* holds a second "=", and with the name given both ways
C14_Witness ==
    /\ pc = "idle" /\ result = "ok"
    /\ \E i \in 1..Len(desc.parameters) : desc.parameters[i] = "a"
    /\ "a" \in SeededKeys
    /\ params["a"] = StringValue(<<"v", "=", "w">>)
    /\ desc.project_name.some
    /\ \E i \in 1..Len(desc.opts_parameters) : desc.opts_parameters[i] = <<"name", "=", "x">>
    /\ params["name"] = StringValue(<<"p">>)

\* The description with force alone, and with force and append
ForceOnly == [desc EXCEPT !.force = TRUE, !.append = FALSE]
ForceAppend == [desc EXCEPT !.force = TRUE, !.append = TRUE]

\* C21: in every state a call can be in, each decision that reads the
\* flags gives the same outcome with force and append as with force alone:
\* the resolution of the target directory, the handling of every directory
\* entry and of every file entry of the template; and a call made with
\* both flags never skips an entry and starts from an empty target.
C21_ForceAppendAsForce ==
    /\ create_dir(ForceAppend, desc.default_parameters.name, cwd, fs)
          = create_dir(ForceOnly, desc.default_parameters.name, cwd, fs)
    /\ \A c \in DOMAIN tree \ {<<>>} :
          IF tree[c].kind = "dir"
          THEN entry_dir(ForceAppend, fs, dirPath, c, params)
                   = entry_dir(ForceOnly, fs, dirPath, c, params)
          ELSE entry_file(ForceAppend, fs, dirPath, c, tree[c], params)
                   = entry_file(ForceOnly, fs, dirPath, c, tree[c], params)
    /\ (desc.force /\ desc.append /\ log # <<>>) =>
          /\ \A i \in 1..Len(log) : log[i].ev \notin {"skipdir", "skipfile"}
          /\ pc = "pre" => \A q \in DOMAIN fs : ~InTarget(q)

\* A call with both flags, made after a successful call, has removed a
\* directory that existed at the destination of a directory entry, created
\* it again and written over a file that existed, and has ended well
C21_Witness ==
    /\ desc.force /\ desc.append
    /\ run >= 2 /\ prev.result = "ok"
    /\ Succeeded
    /\ \E i \in 1..Len(log) :
          log[i].ev = "dir" /\ IsDir(fsBefore, log[i].dst)
    /\ \E i \in 1..Len(log) :
          log[i].ev = "file" /\ Exists(fsBefore, log[i].dst)

====
